---------------------------- MODULE Spec2Model ----------------------------
(***************************************************************************)
(* Model of build.py: the deployment orchestration script.  One run of     *)
(* main() is a sequential process; every blocking external interaction     *)
(* (a file-system probe, one run_command call, one file write) is a step.  *)
(* External tools are opaque: each invocation ends "ok" (exit status 0),   *)
(* "fail" (non-zero exit status: CalledProcessError) or "raise" (the       *)
(* executable cannot be started: subprocess.run raises an OSError that     *)
(* run_command does not catch).                                            *)
(***************************************************************************)
EXTENDS Integers, Sequences, FiniteSets, TLC

\* ------------------------------------------------------------------ bounds
\* Largest number of project records in a manifest.
MaxProjects == 2
\* Largest number of project identifiers given on the command line.
MaxArgs == 1

\* ------------------------------------------------------------- input values
\* Application identifiers that manifests use, in a fixed order; a manifest of
\* at most MaxProjects records draws its identifiers from the first ones.
AppNames == <<"svc-a", "svc-b", "svc-c", "svc-d">>
Apps == {AppNames[i] : i \in 1..MaxProjects}
\* An identifier that no manifest contains (a command-line argument may name it).
UnknownApp == "svc-x"
ArgApps == Apps \cup {UnknownApp}
Versions == {"1.0.0", "1.0.1"}
\* BUILD_MODE values: the two the program names and one it does not.
BuildModes == {"CI", "CICD", "ci"}
Repos == {"vml", "geo"}
OsNames == {"posix", "nt"}
\* What one external command invocation can end in.
Outcomes == {"ok", "fail", "raise"}
\* get_app_version's result when the settings file gives no version (None).
None == "<None>"
\* Directories: the one the process is started in, and the one the local
\* "path" of the iteration names (the project directory that was resolved).
\* What the application settings file of a project can be: it holds
\* Deployment.Version, it does not exist, it cannot be read or decoded, or it
\* lacks the field.
SettingsStates == Versions \cup {"absent", "unreadable", "nofield"}
StartDir == "."
ProjectDir == "<path>"

VARIABLES
    build_mode,        \* sys.argv[2]
    repo,              \* sys.argv[3]
    projects_to_build, \* sys.argv[4:]
    os_name,           \* os.name of the platform
    fileState,         \* manifest file: "ok" | "missing" | "bad" | "truncated"
    disk,              \* records of the manifest file (when decodable)
    loaded,            \* history: the records of the file when the run began
    original_config,   \* main: the full list of record objects
    config,            \* main: the working list, as references (positions in
                       \*   original_config): the dict objects are shared
    index,             \* main: position in config of the current item (1-based)
    old_version,       \* main: local of the iteration
    version,           \* main: local of the iteration
    original_index,    \* main: local of the iteration (0 is None)
    build_results,     \* main: list of booleans
    built_projects,    \* main: list of identifiers
    pc,                \* position of the process
    step,              \* position inside build / update_yaml_files / commit_changes
    git_commands,      \* commit_changes: the commands the loop has yet to run
    exitCode,          \* process exit status (-1 while running)
    exitVia,           \* which statement ended the process
    settings,          \* the settings file main is about to read: a version,
                       \*   "absent", "unreadable" or "nofield" (None when
                       \*   main is not about to read one)
    fs,                \* the YAML directories that exist, each with the YAML
                       \*   files it holds (held in the state by SpecPaths;
                       \*   a run of main draws what each probe finds)
    patched,           \* history: the directories of the files yq patched
                       \*   in this call of update_yaml_files (SpecPaths)
    cwd,               \* the current working directory of the process
    original_cwd,      \* build: local, os.getcwd() when build was entered
    ev                 \* history: per working item, what the run did for it

vars == <<build_mode, repo, projects_to_build, os_name, fileState, disk, loaded,
          original_config, config, index, old_version, version, original_index,
          build_results, built_projects, pc, step, git_commands, exitCode,
          exitVia, settings, fs, patched, cwd, original_cwd, ev>>

\* ------------------------------------------------------- project records
\* A record is a dict: a function whose domain may lack "version" and
\* "readytodeploy".  r < 0 stands for an absent readiness field.
PathOf(a) == "src/" \o a
YamlOf(a) == IF a = AppNames[1] THEN "d.yaml" ELSE "d.yaml|s.yaml"

MkRec(a, v, r) ==
    [x \in {"app", "path", "yaml"}
           \cup (IF v = None THEN {} ELSE {"version"})
           \cup (IF r < 0 THEN {} ELSE {"readytodeploy"}) |->
        CASE x = "app" -> a
          [] x = "path" -> PathOf(a)
          [] x = "yaml" -> YamlOf(a)
          [] x = "version" -> v
          [] OTHER -> r]

\* dict.get(key, default)
Get(d, key, default) == IF key \in DOMAIN d THEN d[key] ELSE default

\* d[key] = value
Put(d, key, value) ==
    [x \in DOMAIN d \cup {key} |-> IF x = key THEN value ELSE d[x]]

\* item['yaml'].split('|') if '|' in item['yaml'] else [item['yaml']]
YamlSplit(s) == IF s = "d.yaml|s.yaml" THEN <<"d.yaml", "s.yaml">> ELSE <<s>>

\* The versions and readiness values that manifests store (None: no field).
StoredVersions == {None, "1.0.1"}
StoredReady == {-1, 1}
RecordsOf(a) == {MkRec(a, v, r) : v \in StoredVersions, r \in StoredReady}

RECURSIVE SeqsOver(_, _)
\* All sequences of length n whose i-th element is drawn from choice[i].
SeqsOver(choice, n) ==
    IF n = 0 THEN {<<>>}
    ELSE {Append(s, x) : s \in SeqsOver(choice, n - 1), x \in choice[n]}

Range(s) == {s[i] : i \in DOMAIN s}
\* The position of an identifier in the fixed order (the unknown one is last).
Rank(a) == IF a = UnknownApp THEN Len(AppNames) + 1
           ELSE CHOOSE i \in DOMAIN AppNames : AppNames[i] = a
Ascending(s) == \A i, j \in DOMAIN s : i < j => Rank(s[i]) < Rank(s[j])

\* Manifests: the application identifier is the unique key of a record.  The
\* identifiers are interchangeable names, so one order of them is enough.
AppOrders == {o \in UNION {[1..n -> Apps] : n \in 0..MaxProjects} : Ascending(o)}
Manifests ==
    UNION {SeqsOver([i \in DOMAIN o |-> RecordsOf(o[i])], Len(o)) : o \in AppOrders}

\* Command lines: identifier lists without repetition ("in projects" does not
\* depend on their order).
ArgLists == {a \in UNION {[1..n -> ArgApps] : n \in 0..MaxArgs} : Ascending(a)}

\* ------------------------------------------------------- pure functions
RECURSIVE filter_loop(_, _, _, _)
\* filter_projects, the loop: items i.. of config whose 'app' is in projects
\* are appended to the result, in order.
filter_loop(cfg, recs, projects, i) ==
    IF i > Len(cfg) THEN <<>>
    ELSE IF recs[cfg[i]]["app"] \in Range(projects)
         THEN <<cfg[i]>> \o filter_loop(cfg, recs, projects, i + 1)
         ELSE filter_loop(cfg, recs, projects, i + 1)

\* filter_projects without its early return for an empty identifier list.
filter_projects_NoEmptyCase(cfg, recs, projects) ==
    filter_loop(cfg, recs, projects, 1)

\* filter_projects(config, projects); config is a list of references into recs.
filter_projects(cfg, recs, projects) ==
    IF projects = <<>> THEN cfg ELSE filter_loop(cfg, recs, projects, 1)

\* WorkingList falling back to every project when no identifier matches.
WorkingList_AllWhenNoneMatch(cfg, recs, projects) ==
    IF projects # <<>> /\ filter_loop(cfg, recs, projects, 1) # <<>>
    THEN filter_loop(cfg, recs, projects, 1)
    ELSE cfg

\* main: "if projects_to_build: config = filter_projects(config, projects_to_build)"
WorkingList(cfg, recs, projects) ==
    IF projects # <<>> THEN filter_projects(cfg, recs, projects) ELSE cfg

\* OriginalIndex taking the position in the working list for the position in
\* the full list.
OriginalIndex_ByPosition(recs, app) == index

\* main: the search for original_index; 0 stands for None.
OriginalIndex(recs, app) ==
    IF \E i \in DOMAIN recs : recs[i]["app"] = app
    THEN CHOOSE i \in DOMAIN recs :
            /\ recs[i]["app"] = app
            /\ \A j \in DOMAIN recs : recs[j]["app"] = app => i <= j
    ELSE 0

\* SkipBuild with the comparison of the versions inverted.
SkipBuild_InvertedComparison(mode, old, new) == mode = "CICD" /\ old # new

\* SkipBuild without the test of the mode.
SkipBuild_AnyMode(mode, old, new) == old = new

\* main: the decision to skip the build.
SkipBuild(mode, old, new) == mode = "CICD" /\ old = new

\* main: "if build_mode == 'CI'" after the build: no YAML, manifest, VCS step.
SkipUpdates(mode) == mode = "CI"

\* str.upper() on the build modes.
Upper(mode) == IF mode = "ci" THEN "CI" ELSE mode

\* DirectStopsAfterPublish going on to the container steps in every mode.
DirectStopsAfterPublish_Never(mode) == FALSE

\* build_directly: "if build_mode.upper() == 'CI'": stop after the publish.
DirectStopsAfterPublish(mode) == Upper(mode) = "CI"

\* main: the two assignments to the record before save_config.
MarkReady(rec, v) == Put(Put(rec, "version", v), "readytodeploy", 1)

\* ExitStatus looking at the last result only.
ExitStatus_LastOnly(results) ==
    IF results # <<>> /\ results[Len(results)] = FALSE THEN 1 ELSE 0

\* main: the exit status of the summary.
ExitStatus(results) == IF FALSE \in Range(results) THEN 1 ELSE 0

\* LoadOutcome taking an undecodable file for an empty manifest.
LoadOutcome_Lenient(state) == IF state = "missing" THEN "nofile" ELSE "loaded"

\* main / load_config: what reading the manifest file ends in.
LoadOutcome(state) ==
    IF state = "missing" THEN "nofile"
    ELSE IF state = "bad" THEN "decode"
    ELSE "loaded"

\* ------------------------------------------------------------ history
\* dir: the project directory ("resolved" | "notfound"); old, new: the stored
\* and the resolved version; builds: calls of build; result: what build
\* returned; yq, vcs: whether yq / git was invoked (0 or 1); saves: rewrites
\* of the manifest file; recorded: what was appended to build_results;
\* yaml: how update_yaml_files ended ("ok": it returned True, "failed": yq
\* failed on a file that was found).
EvInit == [dir |-> "none", old |-> None, new |-> None, builds |-> 0,
           result |-> "none", yq |-> 0, yaml |-> "none", saves |-> 0,
           vcs |-> 0, recorded |-> "none"]

Note(e, k, field, value) == [e EXCEPT ![k][field] = value]
Count(e, k, field) == [e EXCEPT ![k][field] = @ + 1]

\* ------------------------------------------------------------ initial state
Init ==
    /\ build_mode \in BuildModes
    /\ repo \in Repos
    /\ projects_to_build \in ArgLists
    /\ os_name \in OsNames
    /\ \/ fileState = "ok" /\ disk \in Manifests
       \/ fileState \in {"missing", "bad"} /\ disk = <<>>
    /\ loaded = disk
    /\ original_config = <<>>
    /\ config = <<>>
    /\ index = 0
    /\ old_version = None
    /\ version = None
    /\ original_index = 0
    /\ build_results = <<>>
    /\ built_projects = <<>>
    /\ pc = "start"
    /\ step = 0
    /\ git_commands = <<>>
    /\ exitCode = -1
    /\ exitVia = "none"
    /\ settings = None
    /\ fs = <<>>
    /\ patched = <<>>
    /\ cwd = StartDir
    /\ original_cwd = None
    /\ ev = <<>>

paths == <<fs, patched>>
inputs == <<build_mode, repo, projects_to_build, os_name, loaded, paths>>
locals == <<old_version, version, original_index>>
dirs == <<cwd, original_cwd, settings>>
results == <<build_results, built_projects>>
manifest == <<fileState, disk, original_config>>

\* The process ends: sys.exit(code), or an exception nobody catches (status 1).
Exit(code, via) ==
    /\ pc' = "exit"
    /\ exitCode' = code
    /\ exitVia' = via

\* "continue": on to the next item of config.
Continue ==
    /\ index' = index + 1
    /\ pc' = "loop"
    /\ step' = 0

\* main, line 393: original_path = os.getcwd() as the run begins.
original_path == StartDir

item == original_config[config[index]]
image_tag == item["app"]
yaml_files == YamlSplit(item["yaml"])

\* ------------------------------------------------------------------ main
\* Lines 401-419: the manifest is found, loaded, copied and filtered.
Load ==
    /\ pc = "start"
    /\ IF LoadOutcome(fileState) # "loaded"
       THEN /\ Exit(1, LoadOutcome(fileState))
            /\ UNCHANGED <<original_config, config, index, ev>>
       ELSE /\ original_config' = disk
            /\ config' = WorkingList([i \in 1..Len(disk) |-> i], disk,
                                     projects_to_build)
            /\ index' = 1
            /\ ev' = [k \in 1..Len(config') |-> EvInit]
            /\ pc' = "loop"
            /\ UNCHANGED <<exitCode, exitVia>>
    /\ UNCHANGED <<inputs, locals, results, fileState, disk, step, git_commands,
                   dirs>>

\* Lines 422-468: the locals of the iteration and the project directory.
Iterate ==
    /\ pc = "loop"
    /\ index <= Len(config)
    /\ old_version' = Get(item, "version", "1.0.0")
    /\ original_index' = OriginalIndex(original_config, item["app"])
    /\ \E isdir, alt \in BOOLEAN :
         IF isdir \/ alt
         THEN /\ pc' = "version"
              /\ settings' \in SettingsStates
              /\ ev' = Note(ev, index, "dir", "resolved")
              /\ UNCHANGED <<index, step>>
         ELSE /\ ev' = Note(ev, index, "dir", "notfound")
              /\ Continue
              /\ UNCHANGED settings
    /\ UNCHANGED <<inputs, version, results, manifest, config, git_commands,
                   exitCode, exitVia, cwd, original_cwd>>

\* get_app_version returning the sentinel when the file gives no version.
get_app_version_Sentinel(file) == IF file \in Versions THEN file ELSE "1.0.0"

\* get_app_version, lines 59-66: Deployment.Version of the settings file;
\* None when the field is missing and when reading the file raises.
get_app_version(file) == IF file \in Versions THEN file ELSE None

\* Lines 470-495: the version is resolved and the build decided.
ResolveVersion ==
    /\ pc = "version"
    /\ settings' = None
    /\ LET app_version == get_app_version(settings)
           v == IF app_version = None THEN old_version ELSE app_version
           e == Note(Note(ev, index, "old", old_version), index, "new", v)
       IN /\ version' = v
          /\ IF SkipBuild(build_mode, old_version, v)
             THEN /\ build_results' = Append(build_results, TRUE)
                  /\ ev' = Note(e, index, "recorded", "true")
                  /\ Continue
             ELSE /\ pc' = "build"
                  /\ ev' = e
                  /\ UNCHANGED <<build_results, index, step>>
    /\ UNCHANGED <<inputs, old_version, original_index, built_projects, manifest,
                   config, git_commands, exitCode, exitVia, cwd, original_cwd>>

\* StepAfter with the manifest rewrite ahead of the YAML update.
StepAfter_SaveFirst(p) ==
    CASE p = "build" -> "save"
      [] p = "save" -> "yaml"
      [] p = "yaml" -> "commit"

\* main, lines 513-535: the order of the update steps of an iteration: after
\* a successful build update_yaml_files, then the record and save_config,
\* then commit_changes.
StepAfter(p) ==
    CASE p = "build" -> "yaml"
      [] p = "yaml" -> "save"
      [] p = "save" -> "commit"

\* BuildFinally leaving the process where the build was.
BuildFinally_NoRestore(saved, here) == here

\* build, lines 154-155: "finally: os.chdir(original_cwd)"; saved is
\* original_cwd, here the working directory as the try block is left.
BuildFinally(saved, here) == saved

\* build returns (its finally clause runs), and lines 498-511: what main does
\* with the value returned; line 504 is reached after a successful build only.
AfterBuild(success, e, saved, here) ==
    IF ~success
    THEN /\ cwd' = BuildFinally(saved, here)
         /\ build_results' = Append(build_results, FALSE)
         /\ ev' = Note(Note(e, index, "result", "failed"), index, "recorded", "false")
         /\ Continue
         /\ UNCHANGED built_projects
    ELSE IF SkipUpdates(build_mode)
    THEN /\ cwd' = original_path
         /\ build_results' = Append(build_results, TRUE)
         /\ built_projects' = Append(built_projects, image_tag)
         /\ ev' = Note(Note(e, index, "result", "ok"), index, "recorded", "true")
         /\ Continue
    ELSE /\ cwd' = original_path
         /\ pc' = StepAfter("build")
         /\ step' = 1
         /\ ev' = Note(e, index, "result", "ok")
         /\ UNCHANGED <<index, build_results, built_projects>>

enterFrame == <<inputs, locals, manifest, config, git_commands, exitCode, exitVia,
                settings>>
buildFrame == <<enterFrame, original_cwd>>

\* build, lines 91-108: the working directory is saved, chdir(path), build.sh
\* is looked for and normalised.  A chdir that raises, a missing script and a
\* failed normalisation all end the build with False.
BuildEnter ==
    /\ pc = "build"
    /\ original_cwd' = cwd
    /\ \E entered, exists, fixOk \in BOOLEAN :
         LET e == Count(ev, index, "builds")
         IN IF ~entered
            THEN AfterBuild(FALSE, e, cwd, cwd)
            ELSE IF ~exists \/ ~fixOk
            THEN AfterBuild(FALSE, e, cwd, ProjectDir)
            ELSE /\ cwd' = ProjectDir
                 /\ ev' = e
                 /\ pc' = IF os_name = "nt" THEN "variant" ELSE "script"
                 /\ step' = 1
                 /\ UNCHANGED <<index, build_results, built_projects>>
    /\ UNCHANGED enterFrame

\* build, lines 139-155: ./build.sh on a Unix-like system.
RunScript ==
    /\ pc = "script"
    /\ \E o \in Outcomes : AfterBuild(o = "ok", ev, original_cwd, cwd)
    /\ UNCHANGED buildFrame

\* build, lines 116-120: the interpreters build.sh is tried with.
bash_commands == <<"bash", "sh", "wsl bash">>

\* VariantOutcome without the try around run_command: an interpreter that
\* cannot be started ends the build.
VariantOutcome_RaiseEndsBuild(o) ==
    IF o = "ok" THEN "break"
    ELSE IF o = "fail" THEN "continue"
    ELSE "return False"

\* build, lines 122-130: "break" when the command succeeded; the loop goes
\* on when it exited non-zero and, through the except clause, when it
\* could not be started.
VariantOutcome(o) == IF o = "ok" THEN "break" ELSE "continue"

\* build, lines 114-137: bash_commands[step] is run; after the last one has
\* failed the direct build is entered.
TryVariant ==
    /\ pc = "variant"
    /\ \E o \in Outcomes :
         LET r == VariantOutcome(o)
         IN IF r = "break" THEN AfterBuild(TRUE, ev, original_cwd, cwd)
            ELSE IF r = "continue"
            THEN /\ IF step < Len(bash_commands)
                    THEN pc' = "variant" /\ step' = step + 1
                    ELSE pc' = "d_prepare" /\ step' = 0
                 /\ UNCHANGED <<index, build_results, built_projects, cwd, ev>>
            ELSE AfterBuild(FALSE, ev, original_cwd, cwd)
    /\ UNCHANGED buildFrame

\* build_directly, lines 160-181: the project file and the release folders.
DirectPrepare ==
    /\ pc = "d_prepare"
    /\ \E ok \in BOOLEAN :
         IF ok THEN /\ pc' = "d_publish"
                    /\ UNCHANGED <<index, step, build_results, built_projects, cwd, ev>>
         ELSE AfterBuild(FALSE, ev, original_cwd, cwd)
    /\ UNCHANGED buildFrame

\* build_directly, lines 183-202: dotnet publish, its output, the CI stop.
DirectPublish ==
    /\ pc = "d_publish"
    /\ \E o \in Outcomes, produced \in BOOLEAN :
         IF o # "ok" \/ ~produced THEN AfterBuild(FALSE, ev, original_cwd, cwd)
         ELSE IF DirectStopsAfterPublish(build_mode) THEN AfterBuild(TRUE, ev, original_cwd, cwd)
         ELSE /\ pc' = "d_build"
              /\ UNCHANGED <<index, step, build_results, built_projects, cwd, ev>>
    /\ UNCHANGED buildFrame

\* build_directly, lines 204-227: the Dockerfile is written, docker build.
DirectDockerBuild ==
    /\ pc = "d_build"
    /\ \E written \in BOOLEAN, o \in Outcomes :
         IF written /\ o = "ok"
         THEN /\ pc' = "d_tag"
              /\ UNCHANGED <<index, step, build_results, built_projects, cwd, ev>>
         ELSE AfterBuild(FALSE, ev, original_cwd, cwd)
    /\ UNCHANGED buildFrame

\* build_directly, lines 229-235: docker tag.
DirectTag ==
    /\ pc = "d_tag"
    /\ \E o \in Outcomes :
         IF o = "ok"
         THEN /\ pc' = "d_push"
              /\ UNCHANGED <<index, step, build_results, built_projects, cwd, ev>>
         ELSE AfterBuild(FALSE, ev, original_cwd, cwd)
    /\ UNCHANGED buildFrame

\* build_directly, lines 237-246: docker push.
DirectPush ==
    /\ pc = "d_push"
    /\ \E o \in Outcomes : AfterBuild(o = "ok", ev, original_cwd, cwd)
    /\ UNCHANGED buildFrame

\* ---------------------------------------------------- update_yaml_files
\* YamlFileOutcome taking a file that is found nowhere for a failure.
YamlFileOutcome_AbsentFails(found, o) ==
    IF found /\ o = "ok" THEN "next"
    ELSE IF found /\ o = "raise" THEN "raise"
    ELSE "return False"

\* Lines 265-294, one file name: "continue" when no candidate path exists,
\* else yq is run on the path found: on to the next name when it succeeds,
\* "return False" when it exits non-zero, an exception when it cannot be
\* started.
YamlFileOutcome(found, o) ==
    IF ~found THEN "next"
    ELSE IF o = "ok" THEN "next"
    ELSE IF o = "fail" THEN "return False"
    ELSE "raise"

\* Lines 254-294 and 514-517: one YAML file name is handled.  A yq that
\* cannot be started raises through main.
UpdateYaml ==
    /\ pc = "yaml"
    /\ step <= Len(yaml_files)
    /\ \E found \in BOOLEAN, o \in Outcomes :
         LET e == IF found THEN Note(ev, index, "yq", 1) ELSE ev
             r == YamlFileOutcome(found, o)
         IN IF r = "next"
            THEN /\ step' = step + 1
                 /\ ev' = e
                 /\ UNCHANGED <<pc, index, build_results, exitCode, exitVia>>
            ELSE IF r = "return False"
            THEN /\ build_results' = Append(build_results, FALSE)
                 /\ ev' = Note(Note(e, index, "yaml", "failed"), index,
                               "recorded", "false")
                 /\ Continue
                 /\ UNCHANGED <<exitCode, exitVia>>
            ELSE /\ Exit(1, "exception")
                 /\ ev' = Note(e, index, "yaml", "failed")
                 /\ UNCHANGED <<index, step, build_results>>
    /\ UNCHANGED <<inputs, locals, built_projects, manifest, config, git_commands,
                   dirs>>

\* Line 296 and line 514: every file name was handled, the update succeeded.
YamlDone ==
    /\ pc = "yaml"
    /\ step > Len(yaml_files)
    /\ pc' = StepAfter("yaml")
    /\ step' = 0
    /\ ev' = Note(ev, index, "yaml", "ok")
    /\ UNCHANGED <<inputs, locals, results, manifest, config, index, git_commands,
                   exitCode, exitVia, dirs>>

\* ---------------------------------------------------------- save_config
\* Lines 519-528 and 50-57: the record is marked and the manifest rewritten;
\* a write that fails ends the process and may leave a truncated file.
SaveConfig ==
    /\ pc = "save"
    /\ IF original_index # 0
       THEN /\ original_config' =
                 [original_config EXCEPT
                    ![original_index] = MarkReady(@, version)]
            /\ \E written \in BOOLEAN, truncated \in BOOLEAN :
                 IF written
                 THEN /\ disk' = original_config'
                      /\ fileState' = "ok"
                      /\ ev' = Count(ev, index, "saves")
                      /\ pc' = StepAfter("save")
                      /\ UNCHANGED <<exitCode, exitVia>>
                 ELSE /\ disk' = IF truncated THEN <<>> ELSE disk
                      /\ fileState' = IF truncated THEN "truncated" ELSE fileState
                      /\ Exit(1, "save")
                      /\ UNCHANGED ev
       ELSE /\ pc' = StepAfter("save")
            /\ UNCHANGED <<manifest, ev, exitCode, exitVia>>
    /\ UNCHANGED <<inputs, locals, results, config, index, step, git_commands,
                   dirs>>

\* -------------------------------------------------------- commit_changes
\* The paths commit_changes probes, in the order of its command list.
ConfigCandidates == <<"modules/vml/<env>/build.config.json",
                      "vml_ci/modules/vml/<env>/build.config.json">>
YamlDirCandidates == <<"../vml_argocd/vml/<env>/base/",
                       "vml_argocd/vml/<env>/base/",
                       "../vml/<env>/base/">>

\* main, line 402: the manifest file of the run.
ManifestPath(r) == "modules/" \o r \o "/<env>/build.config.json"

\* Lines 333-348: the command list for the paths found to exist.
GitCommands(cfgFound, dirFound) ==
    SelectSeq(ConfigCandidates, LAMBDA p : p \in cfgFound)
    \o SelectSeq(YamlDirCandidates, LAMBDA p : p \in dirFound)
    \o <<"commit", "push">>

\* Lines 300-352: the probes and the command list.  The manifest file of the
\* run exists; every other path may or may not.
CommitProbe ==
    /\ pc = "commit"
    /\ \E cfgFound \in SUBSET Range(ConfigCandidates),
          dirFound \in SUBSET Range(YamlDirCandidates) :
         /\ ManifestPath(repo) \in Range(ConfigCandidates)
               => ManifestPath(repo) \in cfgFound
         /\ git_commands' = GitCommands(cfgFound, dirFound)
    /\ pc' = "git"
    /\ UNCHANGED <<inputs, locals, results, manifest, config, index, step,
                   exitCode, exitVia, dirs, ev>>

\* Lines 354-360: the next git command of the loop; a failure is a warning.
\* A git that cannot be started raises through main and ends the process.
GitRun ==
    /\ pc = "git"
    /\ git_commands # <<>>
    /\ ev' = Note(ev, index, "vcs", 1)
    /\ \E o \in Outcomes :
         IF o = "raise"
         THEN Exit(1, "exception") /\ git_commands' = <<>>
         ELSE git_commands' = Tail(git_commands) /\ UNCHANGED <<pc, exitCode, exitVia>>
    /\ UNCHANGED <<inputs, locals, results, manifest, config, index, step, dirs>>

\* Line 362 and lines 532-540: the loop is over, commit_changes returns True,
\* the item is done.
GitDone ==
    /\ pc = "git"
    /\ git_commands = <<>>
    /\ build_results' = Append(build_results, TRUE)
    /\ built_projects' = Append(built_projects, image_tag)
    /\ ev' = Note(ev, index, "recorded", "true")
    /\ Continue
    /\ UNCHANGED <<inputs, locals, manifest, config, git_commands, exitCode,
                   exitVia, dirs>>

\* Lines 542-553: the summary and the exit status.
Summary ==
    /\ pc = "loop"
    /\ index > Len(config)
    /\ Exit(ExitStatus(build_results), "summary")
    /\ UNCHANGED <<inputs, locals, results, manifest, config, index, step,
                   git_commands, dirs, ev>>

Next ==
    \/ Load
    \/ Iterate
    \/ ResolveVersion
    \/ BuildEnter
    \/ RunScript
    \/ TryVariant
    \/ DirectPrepare
    \/ DirectPublish
    \/ DirectDockerBuild
    \/ DirectTag
    \/ DirectPush
    \/ UpdateYaml
    \/ YamlDone
    \/ SaveConfig
    \/ CommitProbe
    \/ GitRun
    \/ GitDone
    \/ Summary

Spec == Init /\ [][Next]_vars

\* ------------------------------------------------- filter_projects alone
\* A specification that applies filter_projects to arbitrary inputs: records
\* may share an identifier, the identifier list may repeat one or be empty.
FilterMaxLen == 3
FilterMaxArgs == 2
FilterApps == {AppNames[1], AppNames[2]}
FilterRecords == UNION {RecordsOf(a) : a \in FilterApps}
FilterManifests == UNION {[1..n -> FilterRecords] : n \in 0..FilterMaxLen}
FilterArgs == UNION {[1..n -> FilterApps \cup {UnknownApp}] : n \in 0..FilterMaxArgs}

InitFilter ==
    /\ build_mode = "CI"
    /\ repo = "vml"
    /\ projects_to_build \in FilterArgs
    /\ os_name = "posix"
    /\ fileState = "ok"
    /\ disk \in FilterManifests
    /\ loaded = disk
    /\ original_config = disk
    /\ config = [i \in 1..Len(disk) |-> i]
    /\ index = 0
    /\ old_version = None
    /\ version = None
    /\ original_index = 0
    /\ build_results = <<>>
    /\ built_projects = <<>>
    /\ pc = "filter_call"
    /\ step = 0
    /\ git_commands = <<>>
    /\ exitCode = -1
    /\ exitVia = "none"
    /\ settings = None
    /\ fs = <<>>
    /\ patched = <<>>
    /\ cwd = StartDir
    /\ original_cwd = None
    /\ ev = <<>>

\* One call: config = filter_projects(config, projects_to_build).
FilterCall ==
    /\ pc = "filter_call"
    /\ config' = filter_projects(config, original_config, projects_to_build)
    /\ pc' = "filter_ret"
    /\ UNCHANGED <<inputs, locals, results, manifest, index, step, git_commands,
                   exitCode, exitVia, dirs, ev>>

NextFilter == FilterCall

SpecFilter == InitFilter /\ [][NextFilter]_vars

\* ------------------------------------------- the YAML paths of one cycle
\* A specification of update_yaml_files followed by commit_changes' probes
\* for one project, with the file system held in the state: which candidate
\* directories exist and which YAML files each holds.
\* update_yaml_files, lines 258-263: where a YAML file is looked for, in order.
YamlPathCandidates == <<"../vml_argocd/vml/<env>/base/",
                        "modules/vml/<env>/base/",
                        "vml_argocd/vml/<env>/base/",
                        "../vml/<env>/base/">>
YamlNames == {"d.yaml", "s.yaml"}
Layouts ==
    UNION {[D -> SUBSET YamlNames] : D \in SUBSET Range(YamlPathCandidates)}

RECURSIVE FirstPath(_, _, _)
\* Lines 265-269: the first candidate from position i on that exists in the
\* layout; None when there is none.
FirstPath(layout, file, i) ==
    IF i > Len(YamlPathCandidates) THEN None
    ELSE IF YamlPathCandidates[i] \in DOMAIN layout
            /\ file \in layout[YamlPathCandidates[i]]
         THEN YamlPathCandidates[i]
         ELSE FirstPath(layout, file, i + 1)

\* update_yaml_files: the directory yaml_path lies in (None: not found).
yaml_path(layout, file) == FirstPath(layout, file, 1)

InitPaths ==
    /\ build_mode = "CICD"
    /\ repo = "vml"
    /\ projects_to_build = <<>>
    /\ os_name = "posix"
    /\ fileState = "ok"
    /\ disk \in {<<MkRec(a, None, -1)>> : a \in {AppNames[1], AppNames[2]}}
    /\ loaded = disk
    /\ original_config = disk
    /\ config = <<1>>
    /\ index = 1
    /\ old_version = "1.0.0"
    /\ version = "1.0.1"
    /\ original_index = 1
    /\ build_results = <<>>
    /\ built_projects = <<>>
    /\ pc = "paths_yaml"
    /\ step = 1
    /\ git_commands = <<>>
    /\ exitCode = -1
    /\ exitVia = "none"
    /\ settings = None
    /\ fs \in Layouts
    /\ patched = <<>>
    /\ cwd = StartDir
    /\ original_cwd = StartDir
    /\ ev = <<>>

pathsFrame == <<build_mode, repo, projects_to_build, os_name, loaded, fs, locals,
                results, manifest, config, index, exitCode, exitVia, settings,
                cwd, original_cwd, ev>>

\* update_yaml_files, lines 254-294, one file name: the candidates are
\* probed in order and yq is run on the first path that exists.
PathsUpdate ==
    /\ pc = "paths_yaml"
    /\ step <= Len(yaml_files)
    /\ LET p == yaml_path(fs, yaml_files[step])
       IN \E o \in Outcomes :
            LET r == YamlFileOutcome(p # None, o)
            IN /\ pc' = IF r = "next" THEN pc
                        ELSE IF r = "return False" THEN "paths_failed"
                        ELSE "paths_raised"
               /\ step' = IF r = "next" THEN step + 1 ELSE step
               /\ patched' = IF p # None /\ o = "ok" THEN Append(patched, p)
                             ELSE patched
    /\ UNCHANGED <<pathsFrame, git_commands>>

\* update_yaml_files, line 296: every file name was handled.
PathsUpdated ==
    /\ pc = "paths_yaml"
    /\ step > Len(yaml_files)
    /\ pc' = "paths_commit"
    /\ UNCHANGED <<pathsFrame, step, git_commands, patched>>

\* commit_changes, lines 303-348: the probes and the command list.
PathsCommit ==
    /\ pc = "paths_commit"
    /\ \E cfgFound \in SUBSET Range(ConfigCandidates) :
         /\ ManifestPath(repo) \in cfgFound
         /\ git_commands' =
               GitCommands(cfgFound,
                           {d \in Range(YamlDirCandidates) : d \in DOMAIN fs})
    /\ pc' = "paths_staged"
    /\ UNCHANGED <<pathsFrame, step, patched>>

NextPaths ==
    \/ PathsUpdate
    \/ PathsUpdated
    \/ PathsCommit

SpecPaths == InitPaths /\ [][NextPaths]_vars

\* ------------------------------------------------------------- the claims
Work == DOMAIN ev
\* The iteration for working item k is over.
Finished(k) == index > k \/ (pc = "exit" /\ exitVia = "summary")
\* The version the manifest stored for working item k when the run began.
StoredVersion(k) == Get(loaded[config[k]], "version", "1.0.0")
\* Nothing was done for working item k after the build decision.
Untouched(k) ==
    ev[k].builds = 0 /\ ev[k].yq = 0 /\ ev[k].saves = 0 /\ ev[k].vcs = 0
\* No YAML patch, manifest rewrite or VCS command for working item k.
NoUpdates(k) == ev[k].yq = 0 /\ ev[k].saves = 0 /\ ev[k].vcs = 0
Loaded == pc # "start" /\ exitVia \notin {"nofile", "decode"}

\* C1: in gated mode (CICD), a project whose resolved version equals the
\* version the manifest stores is never built, gets no YAML patch, manifest
\* rewrite or commit, and the outcome recorded for it is a success.
C1_GatedUnchangedNotBuilt ==
    build_mode = "CICD" =>
        \A k \in Work :
            (ev[k].new # None /\ ev[k].new = StoredVersion(k)) =>
                Untouched(k) /\ ev[k].recorded = "true"

C1_Witness ==
    /\ build_mode = "CICD"
    /\ pc = "exit"
    /\ \E k \in Work : ev[k].new # None /\ ev[k].new = StoredVersion(k)
    /\ \E k \in Work : ev[k].new # None /\ ev[k].new # StoredVersion(k)
                       /\ ev[k].builds = 1

\* C2: in CI mode every project whose directory is resolved is built exactly
\* once, version change or not, and the run performs no YAML patch, no
\* manifest rewrite and no VCS command, whether a build succeeded or failed.
C2_CiAlwaysBuildsNeverUpdates ==
    build_mode = "CI" =>
        /\ \A k \in Work :
             /\ ev[k].builds <= 1
             /\ (Finished(k) /\ ev[k].dir = "resolved") => ev[k].builds = 1
             /\ NoUpdates(k)
        /\ disk = loaded
        /\ Loaded => original_config = loaded

C2_Witness ==
    /\ build_mode = "CI"
    /\ pc = "exit"
    /\ \E k \in Work : /\ ev[k].new = StoredVersion(k)
                       /\ ev[k].builds = 1
                       /\ ev[k].result = "ok"
    /\ \E k \in Work : ev[k].result = "failed"

\* The record rec with its version set to v and its readiness flag set to 1.
ReadyAt(rec, v) ==
    [x \in DOMAIN rec \cup {"version", "readytodeploy"} |->
        IF x = "version" THEN v ELSE IF x = "readytodeploy" THEN 1 ELSE rec[x]]
\* Working item k was built, its YAML updated and the manifest rewritten.
CycleDone(k) ==
    /\ ev[k].result = "ok"
    /\ \/ ev[k].recorded = "true"
       \/ ev[k].vcs = 1
       \/ index = k /\ pc \in {"commit", "git"}

\* C3: in gated mode, once a project's build, YAML update and manifest
\* rewrite are done, the manifest file (as long as no later rewrite of it
\* failed) holds the resolved version and readiness 1 for that project;
\* every other record is as loaded, or as a cycle of its own project set
\* it; no record is added, removed or moved.
C3_ManifestAfterCycle ==
    (build_mode = "CICD" /\ fileState = "ok") =>
        /\ Len(disk) = Len(loaded)
        /\ \A k \in Work :
             CycleDone(k) => disk[config[k]] = ReadyAt(loaded[config[k]], ev[k].new)
        /\ \A j \in DOMAIN disk :
             \/ disk[j] = loaded[j]
             \/ \E k \in Work : /\ config[k] = j
                                /\ CycleDone(k)
                                /\ disk[j] = ReadyAt(loaded[j], ev[k].new)

C3_Witness ==
    /\ build_mode = "CICD"
    /\ fileState = "ok"
    /\ pc = "exit"
    /\ Len(disk) = 2
    /\ Len(config) = 1
    /\ config[1] = 2
    /\ CycleDone(1)
    /\ disk[2] # loaded[2]
    /\ disk[1] = loaded[1]

\* The readiness flag of a record (-1: the field is absent).
ReadyOf(rec) == Get(rec, "readytodeploy", -1)

\* C4: the readiness flag of a record changes (to 1) only in gated mode and
\* only for a project whose build succeeded in this run; in every other mode
\* and for every failed or skipped project it is as loaded in the manifest
\* file.
C4_ReadyOnlyGatedSuccess ==
    fileState = "ok" =>
        \A j \in DOMAIN disk :
            \/ ReadyOf(disk[j]) = ReadyOf(loaded[j])
            \/ /\ build_mode = "CICD"
               /\ \E k \in Work : config[k] = j /\ ev[k].result = "ok"

\* C5: the exit status is 1 whenever a failure was recorded for a project,
\* and 0 when a success was recorded for every project of the working list,
\* the empty working list included.
C5_ExitStatus ==
    (pc = "exit" /\ Loaded) =>
        /\ (\E k \in Work : ev[k].recorded = "false") => exitCode = 1
        /\ FALSE \in Range(build_results) => exitCode = 1
        /\ (\A k \in Work : ev[k].recorded = "true") => exitCode = 0

C5_Witness ==
    /\ pc = "exit"
    /\ exitVia = "summary"
    /\ exitCode = 1
    /\ \E k \in Work : ev[k].recorded = "false"
    /\ \E k \in Work : ev[k].recorded = "true"

\* C6: a project whose directory is found nowhere is recorded as a failure
\* in build_results, so that the run ends with exit status 1.
C6_PathNotFoundIsFailure ==
    \A k \in Work :
        (Finished(k) /\ ev[k].dir = "notfound") =>
            /\ ev[k].recorded = "false"
            /\ pc = "exit" => exitCode = 1

\* C7: no failure of a project halts the loop: when a run that loaded its
\* manifest has ended, the loop has reached every project of the working
\* list, and the summary ended the run after the last one.
C7_LoopNeverHalts ==
    (pc = "exit" /\ Loaded) =>
        /\ \A k \in Work : ev[k].dir # "none"
        /\ exitVia = "summary" => index > Len(config)

\* C8: with the manifest file missing or undecodable the process ends with
\* exit status 1 before any project is processed; nothing is built, patched,
\* committed or written.
C8_LoadFailureIsFatal ==
    fileState \in {"missing", "bad"} =>
        /\ pc \in {"start", "exit"}
        /\ pc = "exit" => exitCode = 1
        /\ disk = loaded
        /\ config = <<>> /\ ev = <<>>
        /\ build_results = <<>> /\ built_projects = <<>>

C8_Witness == pc = "exit" /\ fileState = "bad" /\ exitVia = "decode"

\* C9: filter_projects returns exactly the records whose identifier is among
\* the given ones, in their original order, and all records for no identifier.
C9_FilterExact ==
    pc = "filter_ret" =>
        LET N == Len(original_config)
            kept == {i \in 1..N :
                        \E a \in DOMAIN projects_to_build :
                            original_config[i]["app"] = projects_to_build[a]}
        IN IF projects_to_build = <<>>
           THEN config = [i \in 1..N |-> i]
           ELSE /\ Len(config) = Cardinality(kept)
                /\ {config[i] : i \in DOMAIN config} = kept
                /\ \A i, j \in DOMAIN config : i < j => config[i] < config[j]

C9_Witness ==
    /\ pc = "filter_ret"
    /\ Len(original_config) = 3
    /\ original_config[1]["app"] = original_config[3]["app"]
    /\ original_config[1] # original_config[3]
    /\ config = <<1, 3>>

\* C10: identifiers are given and none matches a record of the manifest:
\* nothing is built, patched, rewritten or committed and the exit status is 0.
C10_NoMatchBuildsNothing ==
    (/\ fileState = "ok"
     /\ pc # "start"
     /\ projects_to_build # <<>>
     /\ \A i \in DOMAIN loaded, a \in DOMAIN projects_to_build :
            loaded[i]["app"] # projects_to_build[a]) =>
        /\ pc \in {"loop", "exit"}
        /\ pc = "exit" => exitCode = 0
        /\ config = <<>> /\ ev = <<>>
        /\ build_results = <<>> /\ built_projects = <<>>
        /\ disk = loaded /\ original_config = loaded

C10_Witness ==
    /\ pc = "exit"
    /\ exitCode = 0
    /\ projects_to_build = <<UnknownApp>>
    /\ Len(loaded) = 2

\* The process is inside build (between its chdir and its return).
InBuild ==
    pc \in {"script", "variant", "d_prepare", "d_publish", "d_build", "d_tag",
            "d_push"}

\* C11: whenever the process is not inside build, its working directory is
\* the one it was started in: build restores it on success, on a failure
\* return and on an exception, so every iteration of the loop and every
\* YAML, manifest and VCS step runs in the original working directory.
C11_CwdRestored == ~InBuild => cwd = StartDir

C11_Witness ==
    /\ pc = "yaml"
    /\ index = 2
    /\ ev[1].result = "failed"
    /\ original_cwd = StartDir
    /\ cwd = StartDir

\* C12: a VCS command that fails does not abort the process and does not
\* change the outcome of the project: once a git command was run for a
\* project and the run has left that project, a success is recorded for it.
C12_VcsFailureIsWarning ==
    \A k \in Work :
        (ev[k].vcs = 1 /\ (index > k \/ pc = "exit")) => ev[k].recorded = "true"

\* One step of the run as C13 allows it: a project for which yq was never
\* run (every YAML file was absent) is not recorded as failed; the YAML
\* update ends without a failure only after the last file name; and once
\* the run has left such a project, a success is recorded for it and,
\* outside CI mode, the manifest was rewritten and git run.
C13_Step ==
    /\ \A k \in DOMAIN ev' :
         (ev'[k].result = "ok" /\ ev'[k].yq = 0) =>
            /\ ev'[k].recorded # "false"
            /\ index' > k =>
                 /\ ev'[k].recorded = "true"
                 /\ build_mode # "CI" => ev'[k].saves = 1 /\ ev'[k].vcs = 1
    /\ (pc = "yaml" /\ pc' = "save") => step > Len(yaml_files)
    /\ (pc = "yaml" /\ pc' = "yaml" /\ ev' = ev) => step' = step + 1

\* C13: a YAML file found in no candidate directory is skipped:
\* update_yaml_files goes on with the remaining file names and returns
\* success unless yq fails on a file that was found, so absence alone never
\* makes the outcome of the project a failure.
C13_AbsentYamlIsNoFailure == [][C13_Step]_vars

C13_Witness ==
    \E k \in Work :
        /\ Len(YamlSplit(loaded[config[k]]["yaml"])) = 2
        /\ ev[k].result = "ok"
        /\ ev[k].yq = 0
        /\ ev[k].saves = 1
        /\ ev[k].recorded = "true"

\* C14: when yq fails on a YAML file that was found, the project is recorded
\* as failed, its record is as loaded both in memory and in the manifest
\* file, the manifest file was not rewritten for it and no git command was
\* run for it.
C14_PatchFailureStopsProject ==
    \A k \in Work :
        ev[k].yaml = "failed" =>
            /\ ev[k].recorded = "false"
            /\ ev[k].saves = 0
            /\ ev[k].vcs = 0
            /\ original_config[config[k]] = loaded[config[k]]
            /\ fileState = "ok" => disk[config[k]] = loaded[config[k]]

\* C15: with a BUILD_MODE that is neither "CI" nor "CICD" the run behaves as
\* in CI mode: every project whose directory is resolved is built exactly
\* once whatever its version, and there is no YAML patch, no manifest rewrite
\* and no VCS command.
C15_UnknownModeIsUngated ==
    build_mode \notin {"CI", "CICD"} =>
        /\ \A k \in Work :
             /\ ev[k].builds <= 1
             /\ (Finished(k) /\ ev[k].dir = "resolved") => ev[k].builds = 1
             /\ NoUpdates(k)
        /\ disk = loaded
        /\ Loaded => original_config = loaded

\* The settings file gives no version: it is absent, unreadable or lacks
\* the field.
NoVersionInSettings == settings \in {"absent", "unreadable", "nofield"}

\* One step of the run as C16 allows it.
C16_Step ==
    (pc = "version" /\ NoVersionInSettings) =>
        /\ version' = StoredVersion(index)
        /\ pc' # "exit"
        /\ disk' = disk /\ fileState' = fileState
        /\ original_config' = original_config
        /\ build_mode = "CICD" =>
             /\ pc' = "loop" /\ index' = index + 1
             /\ ev'[index].builds = 0
             /\ ev'[index].recorded = "true"

\* C16: when the settings file is absent, unreadable or lacks the version,
\* resolving the version neither ends the process nor writes anything, the
\* version used is the one the manifest stores ("1.0.0" when it stores
\* none), and in gated mode the project is skipped without a build.
C16_NoVersionFallsBack == [][C16_Step]_vars

C16_Witness ==
    /\ pc = "version"
    /\ settings = "nofield"
    /\ build_mode = "CICD"
    /\ index = 2
    /\ StoredVersion(2) = "1.0.1"
    /\ ev[1].builds = 1

\* C17: in gated mode the steps for a project happen in the order version
\* resolved, build, YAML update, manifest rewrite, commit: a build only with
\* a resolved version that differs from the stored one, a YAML update only
\* after a successful build, a manifest rewrite only after a successful
\* build and a successful YAML update, a git command only after the rewrite.
C17_GatedStepOrder ==
    build_mode = "CICD" =>
        \A k \in Work :
            /\ ev[k].builds <= 1 /\ ev[k].saves <= 1
            /\ ev[k].builds = 1 => (ev[k].new # None /\ ev[k].new # ev[k].old)
            /\ ev[k].result # "none" => ev[k].builds = 1
            /\ (ev[k].yq = 1 \/ ev[k].yaml # "none") => ev[k].result = "ok"
            /\ ev[k].saves = 1 => (ev[k].result = "ok" /\ ev[k].yaml = "ok")
            /\ ev[k].vcs = 1 => ev[k].saves = 1
            /\ (ev[k].recorded = "true" /\ ev[k].builds = 1) => ev[k].vcs = 1

C17_Witness ==
    /\ build_mode = "CICD"
    /\ pc = "exit"
    /\ \E k \in Work : ev[k].vcs = 1 /\ ev[k].recorded = "true" /\ ev[k].yq = 1
    /\ \E k \in Work : ev[k].yaml = "failed" /\ ev[k].recorded = "false"

\* The container steps of the direct build.
ContainerSteps == {"d_build", "d_tag", "d_push"}

\* One step of the run as C18 allows it: each step of the direct build is
\* entered from the step before it only; the direct build hands back success
\* only from the push, or from the publish when the mode reads CI; in CI mode
\* no container step is entered.
C18_Step ==
    /\ pc' = "d_publish" => pc = "d_prepare"
    /\ pc' = "d_build" => pc = "d_publish"
    /\ pc' = "d_tag" => pc = "d_build"
    /\ pc' = "d_push" => pc = "d_tag"
    /\ (pc \in ContainerSteps \cup {"d_prepare", "d_publish"}
          /\ ev'[index].result = "ok") =>
            \/ pc = "d_push"
            \/ pc = "d_publish" /\ build_mode \in {"CI", "ci"}
    /\ build_mode = "CI" => pc' \notin ContainerSteps

\* C18: the direct build runs publish, container build, tag and push in
\* that order, each only after the one before it succeeded; it reports
\* success only when every step it attempted succeeded, and in CI mode
\* right after the publish without any container step.
C18_DirectBuildOrder == [][C18_Step]_vars

C18_Witness ==
    /\ pc = "d_push"
    /\ os_name = "nt"
    /\ build_mode = "CICD"
    /\ index = 2
    /\ ev[1].result = "ok"

\* The steps of the direct build.
DirectSteps == ContainerSteps \cup {"d_prepare", "d_publish"}

\* One step of the run as C19 allows it: on "nt" the interpreters are run in
\* the order of the list starting with the first, one that succeeds ends
\* the build with success, one that fails (by its exit status or by not
\* starting) is followed by the next, the direct build is entered exactly
\* after the third has failed, and the build succeeds only by a variant or
\* by the direct build.  Elsewhere neither is run.
C19_Step ==
    /\ (pc' = "variant" /\ pc # "variant") =>
          (pc = "build" /\ os_name = "nt" /\ step' = 1)
    /\ pc = "variant" =>
          \/ ev'[index].result = "ok" /\ pc' \notin {"variant"} \cup DirectSteps
          \/ step < 3 /\ pc' = "variant" /\ step' = step + 1 /\ ev' = ev
          \/ step = 3 /\ pc' = "d_prepare" /\ ev' = ev
    /\ pc' = "d_prepare" => (pc = "variant" /\ step = 3)
    /\ (pc = "build" /\ os_name = "nt") => pc' # "script"
    /\ os_name # "nt" => pc' \notin {"variant"} \cup DirectSteps
    /\ (os_name = "nt" /\ pc \in {"build", "variant"} \cup DirectSteps
          /\ ev'[index].result = "ok") => pc \in {"variant"} \cup DirectSteps

\* C19: on "nt" build.sh is tried with bash, sh and wsl bash in that order;
\* the first that succeeds ends the sequence; the direct build is attempted
\* if and only if all three failed, by exit status or by not starting;
\* build returns success exactly when a variant or the direct build did.
C19_InterpreterVariants == [][C19_Step]_vars

C19_Witness ==
    /\ pc = "d_prepare"
    /\ os_name = "nt"
    /\ index = 2
    /\ ev[1].result = "ok"

\* C20: when commit_changes has made its command list and run none of it
\* yet, the list stages the manifest file of the run, whatever the
\* repository name.
C20_StagesLoadedManifest ==
    (pc = "git" /\ ev[index].vcs = 0) =>
        ManifestPath(repo) \in Range(git_commands)

\* C21: once commit_changes has made its command list, the directory of
\* every YAML file that update_yaml_files patched in the cycle is among the
\* paths the list stages.
C21_PatchedIsStaged ==
    pc = "paths_staged" =>
        \A i \in DOMAIN patched : patched[i] \in Range(git_commands)

=============================================================================
